---- MODULE Spec2Model ----
(***************************************************************************)
(* A model of pth_life.c: Conway's Game of Life on a toroidal m x n world, *)
(* computed by r*s POSIX threads that each own one tile, with a            *)
(* mutex/condition-variable barrier whose last arriver swaps the two       *)
(* buffers, increments the generation counter and decides termination.     *)
(*                                                                         *)
(* Worker ranks are 0..thread_count-1.  The two malloc'ed worlds are       *)
(* buf[0] and buf[1]; the globals w1 and w2 hold the index of the buffer   *)
(* they point to.  A cell of a buffer is addressed by its row-major index  *)
(* i*n + j, as in the source.                                              *)
(***************************************************************************)
EXTENDS Integers, Sequences, FiniteSets, TLC

\* ------------------------------------------------------------------ bounds
\* Largest <max> given on the command line.
MaxGens == 2
\* Generation 0 has its first L cells (row-major) alive, L in 0..MaxLive.
MaxLive == 4
\* The worlds come from malloc unwritten: every cell of a fresh world holds
\* the same indeterminate value, one of 0..MaxGarbage.
MaxGarbage == 1
\* Most spurious returns of pthread_cond_wait in one run.
MaxSpurious == 1
\* Largest world side of the Count_nbhrs specification (smallest is 3).
NbMaxDim == 3
\* Largest thread-grid side and world side of the tile specification.
TileMaxThreads == 3
TileMaxDim == 4

\* --------------------------------------------------------------- constants
LIVE == 1
DEAD == 0
\* Value of the pointers w1, w2 before main allocates the worlds.
NULL == -1
\* barrier_mutex held by nobody.
Unlocked == -1

VARIABLES
    argv,                  \* the command line: [argc, r, s, m, n, max, ig]
    mainpc,                \* main's position
    thread,                \* main's loop variable in the create and join loops
    usage,                 \* Usage() has printed its message and exited
    inputBy,               \* "none", "read" (Read_world) or "gen" (Gen_world)
    msg,                   \* "There are no more live cells" has been printed
    printed,               \* the generation labels Print_world was called with
    thread_count, m, n, r, s, BREAK, live_count, curr_gen, max_gens,
    w1, w2, buf,           \* the two world pointers and the two worlds
    barrier_thread_count,
    barrier_mutex,         \* rank of the holder, or Unlocked
    pc, ci, cj,            \* each worker's position, and its loop variables i, j
    reg,                   \* each worker's register in live_count++
    tmp,                   \* Barrier's local tmp (of the thread swapping)
    world0,                \* history: generation 0 as read or generated
    arrivals,              \* history: calls of Barrier per worker
    passes,                \* history: returns from Barrier per worker
    swaps,                 \* history: completed w1/w2 swaps
    liveWritten,           \* history: LIVE cells written since live_count = 0
    spurious,              \* history: spurious wakeups so far
    tiles,                 \* tile specification: rank -> cells of its tile
    nb                     \* Count_nbhrs specification: last call and result

vars == <<argv, mainpc, thread, usage, inputBy, msg, printed, thread_count,
          m, n, r, s, BREAK, live_count, curr_gen, max_gens, w1, w2, buf,
          barrier_thread_count, barrier_mutex, pc, ci, cj, reg, tmp, world0,
          arrivals, passes, swaps, liveWritten, spurious, tiles, nb>>

mainVars == <<mainpc, thread, usage, inputBy, msg>>
globalArgs == <<thread_count, m, n, r, s, max_gens>>
pureVars == <<tiles, nb>>
histVars == <<world0, arrivals, passes, swaps, liveWritten, spurious>>

\* ------------------------------------------------------- Count_nbhrs (pure)
\* The inner loop of Count_nbhrs: j1 runs to j+1, count += w1[i2*n + j2].
RECURSIVE RowSum(_, _, _, _, _, _)
RowSum(w, mm, nn, i1, j1, j) ==
    IF j1 > j + 1 THEN 0
    ELSE w[((i1 + mm) % mm) * nn + ((j1 + nn) % nn)]
         + RowSum(w, mm, nn, i1, j1 + 1, j)

\* The outer loop of Count_nbhrs: i1 runs to i+1.
RECURSIVE NbhdSum(_, _, _, _, _, _)
NbhdSum(w, mm, nn, i1, i, j) ==
    IF i1 > i + 1 THEN 0
    ELSE RowSum(w, mm, nn, i1, j - 1, j) + NbhdSum(w, mm, nn, i1 + 1, i, j)

\* Mutant: the edges of the world are not adjacent (no wrap-around).
Count_nbhrs_NoWrap(w, mm, nn, i, j) ==
    Cardinality({ d \in ({-1, 0, 1} \X {-1, 0, 1}) \ {<<0, 0>>} :
                    /\ i + d[1] \in 0..(mm - 1)
                    /\ j + d[2] \in 0..(nn - 1)
                    /\ w[(i + d[1]) * nn + (j + d[2])] = LIVE })

\* Mutant: the centre cell is not subtracted.
Count_nbhrs_KeepCentre(w, mm, nn, i, j) == NbhdSum(w, mm, nn, i - 1, i, j)

Count_nbhrs(w, mm, nn, i, j) ==
    NbhdSum(w, mm, nn, i - 1, i, j) - w[i * nn + j]

\* The rule of Play_life: the value written to w2[i*n + j].
Rule(count, old) ==
    IF count < 2 \/ count > 3 THEN DEAD
    ELSE IF count = 2 THEN old
    ELSE LIVE

\* ------------------------------------------------------------ tiles (pure)
local_m == m \div r
local_n == n \div s

\* Mutant: the row of the thread grid is taken with r instead of s.
start_row_ByR(my_rank) == (my_rank \div r) * local_m

start_row(my_rank) == (my_rank \div s) * local_m
start_col(my_rank) == (my_rank % s) * local_n

\* The cells the two for loops of Play_life visit for a rank.
TileCells(my_rank) ==
    { <<i, j>> : i \in start_row(my_rank)..(start_row(my_rank) + local_m - 1),
                 j \in start_col(my_rank)..(start_col(my_rank) + local_n - 1) }

Cells == 0..(m * n - 1)
Dividing == m % r = 0 /\ n % s = 0

\* ------------------------------------------------------------------ inputs
\* Thread grids and worlds of the program runs explored: <<r, s, m, n>>.
Shapes == { <<1, 1, 3, 3>>, <<2, 1, 4, 3>>, <<2, 1, 3, 3>> }
Modes == { "i", "g", "x" }

\* Every shape and <max> with mode 'i'; the other modes, and a wrong argument
\* count, with the smallest run.
Argvs ==
    { [argc |-> 7, r |-> sh[1], s |-> sh[2], m |-> sh[3], n |-> sh[4],
       max |-> mx, ig |-> "i"] : sh \in Shapes, mx \in 0..MaxGens }
    \cup
    { [argc |-> c, r |-> 1, s |-> 1, m |-> 3, n |-> 3, max |-> 1, ig |-> md] :
        c \in {6, 7, 8}, md \in Modes }

\* Top-left corners of the 2 x 2 blocks of the still-life runs: inside one
\* tile, across the boundary of two tiles, and across both edges of the world.
BlockCorners == { <<0, 0>>, <<1, 1>>, <<3, 3>> }

\* The world whose only live cells are the 2 x 2 block with corner k.
Block(k) ==
    [c \in Cells |->
        IF /\ (c \div n) \in { k[1], (k[1] + 1) % m }
           /\ (c % n) \in { k[2], (k[2] + 1) % n }
        THEN LIVE ELSE DEAD]

BlockWorlds == { Block(k) : k \in BlockCorners }

\* The worlds Read_world or Gen_world may store: the first L cells alive, or
\* (in a world of at least 4 x 4 cells) one 2 x 2 block.
Worlds ==
    IF m >= 4 /\ n >= 4 THEN BlockWorlds
    ELSE { [c \in Cells |-> IF c < L THEN LIVE ELSE DEAD] : L \in 0..MaxLive }

\* ---------------------------------------------------------------- initial
InitCommon ==
    /\ usage = FALSE
    /\ inputBy = "none"
    /\ msg = FALSE
    /\ printed = <<>>
    /\ thread = 0
    /\ BREAK = 0
    /\ live_count = 0
    /\ curr_gen = 0
    /\ barrier_thread_count = 0
    /\ barrier_mutex = Unlocked
    /\ tmp = NULL
    /\ swaps = 0
    /\ liveWritten = 0
    /\ spurious = 0
    /\ world0 = <<>>
    /\ tiles = <<>>
    /\ nb = <<>>

Init ==
    /\ argv \in Argvs
    /\ mainpc = "start"
    /\ thread_count = 0 /\ m = 0 /\ n = 0 /\ r = 0 /\ s = 0 /\ max_gens = 0
    /\ w1 = NULL /\ w2 = NULL
    /\ buf = [b \in 0..1 |-> <<>>]
    /\ pc = [t \in 0..(argv.r * argv.s - 1) |-> "idle"]
    /\ ci = [t \in DOMAIN pc |-> 0]
    /\ cj = [t \in DOMAIN pc |-> 0]
    /\ reg = [t \in DOMAIN pc |-> 0]
    /\ arrivals = [t \in DOMAIN pc |-> 0]
    /\ passes = [t \in DOMAIN pc |-> 0]
    /\ InitCommon

\* The still-life runs: a 4 x 4 world, one worker or two workers with two
\* rows each, <max> from 1 to MaxGens, generation 0 typed in.
BlockArgvs ==
    { [argc |-> 7, r |-> rr, s |-> 1, m |-> 4, n |-> 4, max |-> mx, ig |-> "i"] :
        rr \in {1, 2}, mx \in 1..MaxGens }

InitStillLife ==
    /\ argv \in BlockArgvs
    /\ mainpc = "start"
    /\ thread_count = 0 /\ m = 0 /\ n = 0 /\ r = 0 /\ s = 0 /\ max_gens = 0
    /\ w1 = NULL /\ w2 = NULL
    /\ buf = [b \in 0..1 |-> <<>>]
    /\ pc = [t \in 0..(argv.r * argv.s - 1) |-> "idle"]
    /\ ci = [t \in DOMAIN pc |-> 0]
    /\ cj = [t \in DOMAIN pc |-> 0]
    /\ reg = [t \in DOMAIN pc |-> 0]
    /\ arrivals = [t \in DOMAIN pc |-> 0]
    /\ passes = [t \in DOMAIN pc |-> 0]
    /\ InitCommon

\* -------------------------------------------------------------------- main
\* if (argc != 7) Usage(argv[0]); the strtol calls; the three mallocs.
MainArgs ==
    /\ mainpc = "start"
    /\ IF argv.argc # 7
       THEN /\ usage' = TRUE
            /\ mainpc' = "exit"
            /\ UNCHANGED <<globalArgs, w1, w2, buf>>
       ELSE /\ thread_count' = argv.r * argv.s
            /\ m' = argv.m /\ n' = argv.n /\ r' = argv.r /\ s' = argv.s
            /\ max_gens' = argv.max
            /\ w1' = 0 /\ w2' = 1
            /\ \E g \in 0..MaxGarbage :
                  buf' = [b \in 0..1 |-> [c \in 0..(argv.m * argv.n - 1) |-> g]]
            /\ mainpc' = "input"
            /\ UNCHANGED usage
    /\ UNCHANGED <<argv, thread, inputBy, msg, printed, BREAK, live_count,
                   curr_gen, barrier_thread_count, barrier_mutex, pc, ci, cj,
                   reg, tmp, world0, arrivals, passes, swaps, liveWritten,
                   pureVars, spurious>>

\* if (ig == 'i') Read_world(...) else Gen_world(...): w1 holds generation 0.
MainInput ==
    /\ mainpc = "input"
    /\ \E wd \in Worlds :
          /\ buf' = [buf EXCEPT ![w1] = wd]
          /\ world0' = wd
    /\ inputBy' = IF argv.ig = "i" THEN "read" ELSE "gen"
    /\ mainpc' = "print0"
    /\ UNCHANGED <<argv, thread, usage, msg, printed, globalArgs, BREAK,
                   live_count, curr_gen, w1, w2, barrier_thread_count,
                   barrier_mutex, pc, ci, cj, reg, tmp, arrivals, passes,
                   swaps, liveWritten, pureVars, spurious>>

\* sprintf(title, "Generation %d:", curr_gen); Print_world(title, w1);
MainPrint ==
    /\ mainpc = "print0"
    /\ printed' = Append(printed, curr_gen)
    /\ mainpc' = "create"
    /\ thread' = 0
    /\ UNCHANGED <<argv, usage, inputBy, msg, globalArgs, BREAK, live_count,
                   curr_gen, w1, w2, buf, barrier_thread_count, barrier_mutex,
                   pc, ci, cj, reg, tmp, world0, arrivals, passes, swaps,
                   liveWritten, pureVars, spurious>>

\* One pthread_create of the first for loop: the new thread starts Play_life.
MainCreate ==
    /\ mainpc = "create"
    /\ thread < thread_count
    /\ pc' = [pc EXCEPT ![thread] = "loop"]
    /\ IF thread + 1 < thread_count
       THEN thread' = thread + 1 /\ UNCHANGED mainpc
       ELSE thread' = 0 /\ mainpc' = "join"
    /\ UNCHANGED <<argv, usage, inputBy, msg, printed, globalArgs, BREAK,
                   live_count, curr_gen, w1, w2, buf, barrier_thread_count,
                   barrier_mutex, ci, cj, reg, tmp, world0, arrivals, passes,
                   swaps, liveWritten, pureVars, spurious>>

\* One pthread_join of the second for loop.
MainJoin ==
    /\ mainpc = "join"
    /\ pc[thread] = "done"
    /\ IF thread + 1 < thread_count
       THEN thread' = thread + 1 /\ UNCHANGED mainpc
       ELSE thread' = 0 /\ mainpc' = "final"
    /\ UNCHANGED <<argv, usage, inputBy, msg, printed, globalArgs, BREAK,
                   live_count, curr_gen, w1, w2, buf, barrier_thread_count,
                   barrier_mutex, pc, ci, cj, reg, tmp, world0, arrivals,
                   passes, swaps, liveWritten, pureVars, spurious>>

\* if (curr_gen < max_gens) printf("There are no more live cells\n");
MainFinal ==
    /\ mainpc = "final"
    /\ msg' = (curr_gen < max_gens)
    /\ mainpc' = "exit"
    /\ UNCHANGED <<argv, thread, usage, inputBy, printed, globalArgs, BREAK,
                   live_count, curr_gen, w1, w2, buf, barrier_thread_count,
                   barrier_mutex, pc, ci, cj, reg, tmp, world0, arrivals,
                   passes, swaps, liveWritten, pureVars, spurious>>

\* --------------------------------------------------------------- Play_life
mainAll == <<argv, mainVars, globalArgs>>

\* After the body of the inner for loop: j++, then i++, then Barrier(rank).
AfterCell(t) ==
    IF cj[t] + 1 < start_col(t) + local_n
    THEN /\ cj' = [cj EXCEPT ![t] = cj[t] + 1]
         /\ pc' = [pc EXCEPT ![t] = "cell"]
         /\ UNCHANGED ci
    ELSE IF ci[t] + 1 < start_row(t) + local_m
    THEN /\ ci' = [ci EXCEPT ![t] = ci[t] + 1]
         /\ cj' = [cj EXCEPT ![t] = start_col(t)]
         /\ pc' = [pc EXCEPT ![t] = "cell"]
    ELSE /\ pc' = [pc EXCEPT ![t] = "barrier"]
         /\ UNCHANGED <<ci, cj>>

\* while (curr_gen < max_gens), and the entry of the two for loops.
LoopTest(t) ==
    /\ pc[t] = "loop"
    /\ IF curr_gen < max_gens
       THEN IF local_m > 0 /\ local_n > 0
            THEN /\ pc' = [pc EXCEPT ![t] = "cell"]
                 /\ ci' = [ci EXCEPT ![t] = start_row(t)]
                 /\ cj' = [cj EXCEPT ![t] = start_col(t)]
            ELSE /\ pc' = [pc EXCEPT ![t] = "barrier"]
                 /\ UNCHANGED <<ci, cj>>
       ELSE /\ pc' = [pc EXCEPT ![t] = "done"]
            /\ UNCHANGED <<ci, cj>>
    /\ UNCHANGED <<mainAll, printed, BREAK, live_count, curr_gen, w1, w2, buf,
                   barrier_thread_count, barrier_mutex, reg, tmp, world0,
                   arrivals, passes, swaps, liveWritten, pureVars, spurious>>

\* count = Count_nbhrs(w1, m, n, i, j); the rule; the store to w2[i*n + j];
\* the test w2[i*n + j] == LIVE.
ComputeCell(t) ==
    /\ pc[t] = "cell"
    /\ LET i == ci[t]
           j == cj[t]
           count == Count_nbhrs(buf[w1], m, n, i, j)
           val == Rule(count, buf[w1][i * n + j])
       IN  /\ buf' = [buf EXCEPT ![w2][i * n + j] = val]
           /\ IF val = LIVE
              THEN /\ pc' = [pc EXCEPT ![t] = "inc_r"]
                   /\ liveWritten' = liveWritten + 1
                   /\ UNCHANGED <<ci, cj>>
              ELSE /\ AfterCell(t)
                   /\ UNCHANGED liveWritten
    /\ UNCHANGED <<mainAll, printed, BREAK, live_count, curr_gen, w1, w2,
                   barrier_thread_count, barrier_mutex, reg, tmp, world0,
                   arrivals, passes, swaps, pureVars, spurious>>

\* live_count++ is a load ...
IncRead(t) ==
    /\ pc[t] = "inc_r"
    /\ reg' = [reg EXCEPT ![t] = live_count]
    /\ pc' = [pc EXCEPT ![t] = "inc_w"]
    /\ UNCHANGED <<mainAll, printed, BREAK, live_count, curr_gen, w1, w2, buf,
                   barrier_thread_count, barrier_mutex, ci, cj, tmp, world0,
                   arrivals, passes, swaps, liveWritten, pureVars, spurious>>

\* ... and a store, with no lock held.
IncWrite(t) ==
    /\ pc[t] = "inc_w"
    /\ live_count' = reg[t] + 1
    /\ reg' = [reg EXCEPT ![t] = 0]
    /\ AfterCell(t)
    /\ UNCHANGED <<mainAll, printed, BREAK, curr_gen, w1, w2, buf,
                   barrier_thread_count, barrier_mutex, tmp, world0,
                   arrivals, passes, swaps, liveWritten, pureVars, spurious>>

\* if (BREAK == 1) break;
CheckBreak(t) ==
    /\ pc[t] = "brk"
    /\ pc' = [pc EXCEPT ![t] = IF BREAK = 1 THEN "done" ELSE "loop"]
    /\ UNCHANGED <<mainAll, printed, BREAK, live_count, curr_gen, w1, w2, buf,
                   barrier_thread_count, barrier_mutex, ci, cj, reg, tmp,
                   world0, arrivals, passes, swaps, liveWritten, pureVars, spurious>>

\* ----------------------------------------------------------------- Barrier
\* pthread_mutex_lock; barrier_thread_count++; the test against
\* thread_count; for a thread that is not the last, pthread_cond_wait gives
\* the mutex up and blocks.
BarrierArrive(t) ==
    /\ pc[t] = "barrier"
    /\ barrier_mutex = Unlocked
    /\ barrier_thread_count' = barrier_thread_count + 1
    /\ arrivals' = [arrivals EXCEPT ![t] = arrivals[t] + 1]
    /\ IF barrier_thread_count + 1 = thread_count
       THEN /\ pc' = [pc EXCEPT ![t] = "swap1"]
            /\ barrier_mutex' = t
       ELSE /\ pc' = [pc EXCEPT ![t] = "wait"]
            /\ UNCHANGED barrier_mutex
    /\ UNCHANGED <<mainAll, printed, BREAK, live_count, curr_gen, w1, w2, buf,
                   ci, cj, reg, tmp, world0, passes, swaps, liveWritten,
                   pureVars, spurious>>

\* tmp = w1; w1 = w2;
LeaderSwap1(t) ==
    /\ pc[t] = "swap1"
    /\ tmp' = w1
    /\ w1' = w2
    /\ pc' = [pc EXCEPT ![t] = "swap2"]
    /\ UNCHANGED <<mainAll, printed, BREAK, live_count, curr_gen, w2, buf,
                   barrier_thread_count, barrier_mutex, ci, cj, reg, world0,
                   arrivals, passes, swaps, liveWritten, pureVars, spurious>>

\* w2 = tmp;
LeaderSwap2(t) ==
    /\ pc[t] = "swap2"
    /\ w2' = tmp
    /\ swaps' = swaps + 1
    /\ pc' = [pc EXCEPT ![t] = "gen"]
    /\ UNCHANGED <<mainAll, printed, BREAK, live_count, curr_gen, w1, buf,
                   barrier_thread_count, barrier_mutex, ci, cj, reg, tmp,
                   world0, arrivals, passes, liveWritten, pureVars, spurious>>

\* curr_gen++;
LeaderGen(t) ==
    /\ pc[t] = "gen"
    /\ curr_gen' = curr_gen + 1
    /\ pc' = [pc EXCEPT ![t] = "test"]
    /\ UNCHANGED <<mainAll, printed, BREAK, live_count, w1, w2, buf,
                   barrier_thread_count, barrier_mutex, ci, cj, reg, tmp,
                   world0, arrivals, passes, swaps, liveWritten, pureVars, spurious>>

\* Mutant: the title is made before curr_gen++.
LeaderTest_OldLabel(t) ==
    /\ pc[t] = "test"
    /\ IF live_count > 0
       THEN printed' = Append(printed, curr_gen - 1) /\ UNCHANGED BREAK
       ELSE BREAK' = 1 /\ UNCHANGED printed
    /\ pc' = [pc EXCEPT ![t] = "reset"]
    /\ UNCHANGED <<mainAll, live_count, curr_gen, w1, w2, buf,
                   barrier_thread_count, barrier_mutex, ci, cj, reg, tmp,
                   world0, arrivals, passes, swaps, liveWritten, pureVars, spurious>>

\* if (live_count > 0) { sprintf; Print_world(title, w1); } else BREAK = 1;
LeaderTest(t) ==
    /\ pc[t] = "test"
    /\ IF live_count > 0
       THEN printed' = Append(printed, curr_gen) /\ UNCHANGED BREAK
       ELSE BREAK' = 1 /\ UNCHANGED printed
    /\ pc' = [pc EXCEPT ![t] = "reset"]
    /\ UNCHANGED <<mainAll, live_count, curr_gen, w1, w2, buf,
                   barrier_thread_count, barrier_mutex, ci, cj, reg, tmp,
                   world0, arrivals, passes, swaps, liveWritten, pureVars, spurious>>

\* live_count = 0;
LeaderReset(t) ==
    /\ pc[t] = "reset"
    /\ live_count' = 0
    /\ liveWritten' = 0
    /\ pc' = [pc EXCEPT ![t] = "release"]
    /\ UNCHANGED <<mainAll, printed, BREAK, curr_gen, w1, w2, buf,
                   barrier_thread_count, barrier_mutex, ci, cj, reg, tmp,
                   world0, arrivals, passes, swaps, pureVars, spurious>>

\* barrier_thread_count = 0; pthread_cond_broadcast unblocks every thread
\* blocked in pthread_cond_wait; pthread_mutex_unlock; return.
LeaderRelease(t) ==
    /\ pc[t] = "release"
    /\ barrier_thread_count' = 0
    /\ pc' = [u \in DOMAIN pc |->
                IF u = t THEN "brk"
                ELSE IF pc[u] = "wait" THEN "woken" ELSE pc[u]]
    /\ barrier_mutex' = Unlocked
    /\ passes' = [passes EXCEPT ![t] = passes[t] + 1]
    /\ UNCHANGED <<mainAll, printed, BREAK, live_count, curr_gen, w1, w2, buf,
                   ci, cj, reg, tmp, world0, arrivals, swaps, liveWritten,
                   pureVars, spurious>>

\* pthread_cond_wait returns 0 with no broadcast (a spurious wakeup, which
\* POSIX allows); the loop `while (pthread_cond_wait(...) != 0);` ends on 0.
SpuriousWakeup(t) ==
    /\ pc[t] = "wait"
    /\ spurious < MaxSpurious
    /\ spurious' = spurious + 1
    /\ pc' = [pc EXCEPT ![t] = "woken"]
    /\ UNCHANGED <<mainAll, printed, BREAK, live_count, curr_gen, w1, w2, buf,
                   barrier_thread_count, barrier_mutex, ci, cj, reg, tmp,
                   world0, arrivals, passes, swaps, liveWritten, pureVars>>

\* An unblocked thread gets the mutex back inside pthread_cond_wait, the
\* wait loop ends, pthread_mutex_unlock, return.
WaitReturn(t) ==
    /\ pc[t] = "woken"
    /\ barrier_mutex = Unlocked
    /\ pc' = [pc EXCEPT ![t] = "brk"]
    /\ passes' = [passes EXCEPT ![t] = passes[t] + 1]
    /\ UNCHANGED <<mainAll, printed, BREAK, live_count, curr_gen, w1, w2, buf,
                   barrier_thread_count, barrier_mutex, ci, cj, reg, tmp,
                   world0, arrivals, swaps, liveWritten, pureVars, spurious>>

\* ----------------------------------------------------------- specification
\* The program when pthread_cond_wait returns only after a broadcast.
NextBroadcastOnly ==
    \/ MainArgs \/ MainInput \/ MainPrint \/ MainCreate \/ MainJoin
    \/ MainFinal
    \/ \E t \in DOMAIN pc : LoopTest(t)
    \/ \E t \in DOMAIN pc : ComputeCell(t)
    \/ \E t \in DOMAIN pc : IncRead(t)
    \/ \E t \in DOMAIN pc : IncWrite(t)
    \/ \E t \in DOMAIN pc : CheckBreak(t)
    \/ \E t \in DOMAIN pc : BarrierArrive(t)
    \/ \E t \in DOMAIN pc : LeaderSwap1(t)
    \/ \E t \in DOMAIN pc : LeaderSwap2(t)
    \/ \E t \in DOMAIN pc : LeaderGen(t)
    \/ \E t \in DOMAIN pc : LeaderTest(t)
    \/ \E t \in DOMAIN pc : LeaderReset(t)
    \/ \E t \in DOMAIN pc : LeaderRelease(t)
    \/ \E t \in DOMAIN pc : WaitReturn(t)

SpecBroadcastOnly == Init /\ [][NextBroadcastOnly]_vars

\* The program under POSIX: pthread_cond_wait may also return spuriously.
Next ==
    \/ MainArgs \/ MainInput \/ MainPrint \/ MainCreate \/ MainJoin
    \/ MainFinal
    \/ \E t \in DOMAIN pc : LoopTest(t)
    \/ \E t \in DOMAIN pc : ComputeCell(t)
    \/ \E t \in DOMAIN pc : IncRead(t)
    \/ \E t \in DOMAIN pc : IncWrite(t)
    \/ \E t \in DOMAIN pc : CheckBreak(t)
    \/ \E t \in DOMAIN pc : BarrierArrive(t)
    \/ \E t \in DOMAIN pc : LeaderSwap1(t)
    \/ \E t \in DOMAIN pc : LeaderSwap2(t)
    \/ \E t \in DOMAIN pc : LeaderGen(t)
    \/ \E t \in DOMAIN pc : LeaderTest(t)
    \/ \E t \in DOMAIN pc : LeaderReset(t)
    \/ \E t \in DOMAIN pc : LeaderRelease(t)
    \/ \E t \in DOMAIN pc : WaitReturn(t)
    \/ \E t \in DOMAIN pc : SpuriousWakeup(t)

Spec == Init /\ [][Next]_vars

\* Fair scheduling: main or some thread that can take a step takes one.
FairSpec == Spec /\ WF_vars(Next)
FairSpecBroadcastOnly == SpecBroadcastOnly /\ WF_vars(NextBroadcastOnly)

\* The still-life runs, with and without spurious returns of the wait.
SpecStillLife == InitStillLife /\ [][Next]_vars
SpecStillLifeBroadcastOnly == InitStillLife /\ [][NextBroadcastOnly]_vars

\* ------------------------------------------- Count_nbhrs as a pure function
\* Every 0/1 world of NbDims x NbDims cells, and one call of Count_nbhrs.
NbDims == 3..NbMaxDim

InitNbhrs ==
    /\ argv = <<>>
    /\ mainpc = "pure"
    /\ m \in NbDims /\ n \in NbDims
    /\ r = 1 /\ s = 1 /\ thread_count = 1 /\ max_gens = 0
    /\ w1 = 0 /\ w2 = 1
    /\ \E wd \in [0..(m * n - 1) -> {DEAD, LIVE}] :
          buf = [b \in 0..1 |-> wd]
    /\ pc = <<>> /\ ci = <<>> /\ cj = <<>> /\ reg = <<>>
    /\ arrivals = <<>> /\ passes = <<>>
    /\ InitCommon

\* count = Count_nbhrs(w1, m, n, i, j);
CallCount_nbhrs(i, j) ==
    /\ nb = <<>>
    /\ nb' = <<i, j, Count_nbhrs(buf[w1], m, n, i, j)>>
    /\ UNCHANGED <<mainAll, printed, BREAK, live_count, curr_gen, w1, w2, buf,
                   barrier_thread_count, barrier_mutex, pc, ci, cj, reg, tmp,
                   histVars, tiles>>

NextNbhrs == \E i \in 0..(m - 1), j \in 0..(n - 1) : CallCount_nbhrs(i, j)

SpecNbhrs == InitNbhrs /\ [][NextNbhrs]_vars

\* --------------------------------------------------- tiles as a pure function
InitTile ==
    /\ argv = <<>>
    /\ mainpc = "pure"
    /\ r \in 1..TileMaxThreads /\ s \in 1..TileMaxThreads
    /\ m \in 1..TileMaxDim /\ n \in 1..TileMaxDim
    /\ thread_count = r * s
    /\ max_gens = 0
    /\ w1 = NULL /\ w2 = NULL
    /\ buf = [b \in 0..1 |-> <<>>]
    /\ pc = <<>> /\ ci = <<>> /\ cj = <<>> /\ reg = <<>>
    /\ arrivals = <<>> /\ passes = <<>>
    /\ InitCommon

\* The tile of the next rank, as Play_life's locals and loops give it.
TileOfNextRank ==
    /\ thread < thread_count
    /\ tiles' = Append(tiles, TileCells(thread))
    /\ thread' = thread + 1
    /\ UNCHANGED <<argv, mainpc, usage, inputBy, msg, globalArgs, printed,
                   BREAK, live_count, curr_gen, w1, w2, buf,
                   barrier_thread_count, barrier_mutex, pc, ci, cj, reg, tmp,
                   histVars, nb>>

NextTile == TileOfNextRank

SpecTile == InitTile /\ [][NextTile]_vars

\* ------------------------------------------------- the sequential reference
\* The 8 toroidal neighbours of cell (i, j) of an mm x nn world.
NeighbourCells(mm, nn, i, j) ==
    { ((i + d[1]) % mm) * nn + ((j + d[2]) % nn) :
        d \in ({-1, 0, 1} \X {-1, 0, 1}) \ {<<0, 0>>} }

LiveNeighbours(G, mm, nn, i, j) ==
    Cardinality({ c \in NeighbourCells(mm, nn, i, j) : G[c] = LIVE })

\* One generation by the four rules: a live cell with two or three live
\* neighbours lives on, a dead cell with exactly three becomes live, every
\* other cell is dead.
LifeStep(G) ==
    [c \in Cells |->
        LET k == LiveNeighbours(G, m, n, c \div n, c % n)
        IN  IF G[c] = LIVE
            THEN (IF k = 2 \/ k = 3 THEN LIVE ELSE DEAD)
            ELSE (IF k = 3 THEN LIVE ELSE DEAD)]

RECURSIVE Generation(_)
Generation(g) == IF g = 0 THEN world0 ELSE LifeStep(Generation(g - 1))

AllDead(G) == \A c \in DOMAIN G : G[c] # LIVE

\* A run of the program proper: the arguments were accepted, generation 0 read.
Running == mainpc \in {"print0", "create", "join", "final", "exit"} /\ ~usage
Finished == mainpc = "exit" /\ ~usage
Computing(t) == pc[t] \in {"cell", "inc_r", "inc_w"}

\* ------------------------------------------------------------------ claims
\* C1: in every barrier round exactly one worker performs the leader step:
\* a worker that returns from its k-th call of Barrier finds w1/w2 swapped
\* exactly k times and curr_gen = k.
C1_OneLeaderStepPerRound ==
    \A t \in DOMAIN pc :
        pc[t] = "brk" => swaps = passes[t] /\ curr_gen = passes[t]

\* C2: strict generation ordering: a worker computing its tile for
\* generation k+1 does so after every worker finished its tile for
\* generation k and the buffers were swapped k times, and w1 and w2 are
\* different worlds while it reads one and writes the other.
C2_StrictGenerationOrder ==
    \A t \in DOMAIN pc :
        Computing(t) =>
            /\ swaps = passes[t]
            /\ \A u \in DOMAIN pc : arrivals[u] >= passes[t]
            /\ w1 # w2

\* C3: for m, n >= 3 divided evenly, after every completed round the current
\* world w1 is the curr_gen-fold application of the Life rule to generation 0.
C3_MatchesSequentialReference ==
    (Running /\ Dividing /\ m >= 3 /\ n >= 3 /\ barrier_mutex = Unlocked)
        => buf[w1] = Generation(curr_gen)

\* C4: if the world is all dead at generation k, 0 <= k < max, and not
\* before, the run ends with curr_gen = k and the "no more live cells"
\* message.
C4_StopsAtDeathGeneration ==
    Finished =>
        \A k \in 0..(max_gens - 1) :
            (AllDead(Generation(k))
               /\ \A h \in 0..(k - 1) : ~AllDead(Generation(h)))
                => curr_gen = k /\ msg

\* C5: a world (divided evenly) that is not all dead in any generation up to
\* max runs exactly max generations: curr_gen never exceeds max_gens, and the
\* run ends with every worker having passed max_gens barrier rounds,
\* curr_gen = max_gens and no "no more live cells" message.
C5_RunsMaxGenerations ==
    (Running /\ Dividing /\ m >= 3 /\ n >= 3
       /\ \A k \in 0..max_gens : ~AllDead(Generation(k)))
        => /\ curr_gen <= max_gens
           /\ Finished =>
                /\ curr_gen = max_gens
                /\ ~msg
                /\ \A t \in DOMAIN pc : passes[t] = max_gens

\* C6: when the leader of a round reads live_count, it is the number of
\* cells written LIVE in that round (here: in a world divided evenly).
C6_NoLostUpdate ==
    \A t \in DOMAIN pc :
        (pc[t] = "test" /\ Dividing) => live_count = liveWritten

\* C7: for m % r = 0 and n % s = 0 the tiles of ranks 0..r*s-1 hold every
\* cell of the m x n world exactly once.
C7_TilesPartitionWorld ==
    (Dividing /\ Len(tiles) = thread_count) =>
        /\ \A k \in 1..Len(tiles) : tiles[k] \subseteq (0..(m - 1)) \X (0..(n - 1))
        /\ \A c \in (0..(m - 1)) \X (0..(n - 1)) :
              Cardinality({ k \in 1..Len(tiles) : c \in tiles[k] }) = 1

\* A 2 x 2 thread grid has computed all four tiles of a 4 x 2 world.
C7_Witness ==
    /\ r = 2 /\ s = 2 /\ m = 4 /\ n = 2
    /\ Len(tiles) = 4
    /\ tiles[4] = {<<2, 1>>, <<3, 1>>}

\* C8: with a wrong argument count or a mode other than 'i' and 'g', no
\* world is read or generated and no worker thread is created, and the
\* process ends in Usage.
C8_BadModeIsUsageError ==
    (argv.argc # 7 \/ argv.ig \notin {"i", "g"}) =>
        /\ inputBy = "none"
        /\ \A t \in DOMAIN pc : pc[t] = "idle"
        /\ mainpc = "exit" => usage

\* C9: when m % r # 0 or n % s # 0 no worker thread is created.
C9_NonDividingRejected ==
    (mainpc # "start" /\ ~usage /\ ~Dividing) =>
        \A t \in DOMAIN pc : pc[t] = "idle"

\* C10: for m, n >= 3 Count_nbhrs returns the number of LIVE cells among the
\* 8 distinct toroidal neighbours of (i, j), a number in 0..8: 0 in an
\* all-dead world and 8 in an all-live world.
C10_CountsEightNeighbours ==
    nb # <<>> =>
        /\ nb[3] \in 0..8
        /\ Cardinality(NeighbourCells(m, n, nb[1], nb[2])) = 8
        /\ nb[3] = LiveNeighbours(buf[w1], m, n, nb[1], nb[2])
        /\ AllDead(buf[w1]) => nb[3] = 0
        /\ (\A c \in Cells : buf[w1][c] = LIVE) => nb[3] = 8

\* Count_nbhrs returned 8 for the corner (0, 0) of the all-live 3 x 3 world.
C10_Witness ==
    /\ nb = <<0, 0, 8>>
    /\ m = 3 /\ n = 3
    /\ \A c \in Cells : buf[w1][c] = LIVE

\* The world G rotated by a rows and b columns:
\* the cell (i, j) of G is the cell ((i + a) mod mm, (j + b) mod nn) of it.
Shift(G, mm, nn, a, b) ==
    [c \in DOMAIN G |->
        G[(((c \div nn) - a + mm) % mm) * nn + (((c % nn) - b + nn) % nn)]]

\* C11: toroidal symmetry: for every 0/1 world with m, n >= 3, every cell
\* (i, j) and every cyclic shift (a, b), Count_nbhrs of the shifted world at
\* the shifted cell equals Count_nbhrs of the world at (i, j).
C11_ShiftInvariant ==
    nb # <<>> =>
        \A a \in 0..(m - 1), b \in 0..(n - 1) :
            Count_nbhrs(Shift(buf[w1], m, n, a, b), m, n,
                        (nb[1] + a) % m, (nb[2] + b) % n) = nb[3]

\* Count_nbhrs returned 1 for the corner (0, 0) of the 3 x 3 world whose only
\* live cell is the opposite corner (2, 2), a neighbour by wrap-around only.
C11_Witness ==
    /\ m = 3 /\ n = 3
    /\ buf[w1] = [c \in Cells |-> IF c = 8 THEN LIVE ELSE DEAD]
    /\ nb = <<0, 0, 1>>

\* C12: still life: from a world of at least 4 x 4 cells, divided evenly,
\* whose only live cells form a 2 x 2 block, the current world after every
\* completed generation is the initial world, and BREAK is never set.
C12_BlockIsStillLife ==
    (Running /\ Dividing /\ m >= 4 /\ n >= 4 /\ world0 \in BlockWorlds)
        => /\ BREAK = 0
           /\ barrier_mutex = Unlocked => buf[w1] = world0

\* The renderings so far are labelled 0, 1, 2, ... in this order; generation
\* 0 is rendered before any worker starts; a finished run has rendered every
\* completed generation but the one that set BREAK, and never more than
\* max_gens of them.
OutputSoFar ==
    /\ \A k \in 1..Len(printed) : printed[k] = k - 1
    /\ (\E t \in DOMAIN pc : pc[t] # "idle") => Len(printed) >= 1
    /\ Len(printed) <= max_gens + 1
    /\ Finished => Len(printed) = curr_gen + 1 - BREAK

\* A step that renders is main's rendering of generation 0 with no worker
\* started, or the test of a leader step, after the swap and curr_gen++, with
\* live_count non-zero and the new curr_gen as label; the test of a leader
\* step with live_count zero sets BREAK and renders nothing.
OutputStep ==
    /\ printed' # printed =>
          \/ /\ mainpc = "print0"
             /\ \A t \in DOMAIN pc : pc[t] = "idle"
             /\ printed' = <<0>>
          \/ \E t \in DOMAIN pc :
                /\ pc[t] = "test" /\ pc'[t] = "reset"
                /\ live_count # 0
                /\ swaps = curr_gen
                /\ w1 # w2
                /\ printed' = Append(printed, curr_gen)
                /\ BREAK' = BREAK
    /\ \A t \in DOMAIN pc :
          (pc[t] = "test" /\ pc'[t] = "reset") =>
              IF live_count # 0
              THEN printed' = Append(printed, curr_gen) /\ BREAK' = BREAK
              ELSE printed' = printed /\ BREAK' = 1

\* C13: output sequence: generation 0 is rendered by main before any worker
\* starts; afterwards a rendering happens only in a leader step, after the
\* swap and the increment, labelled with the new curr_gen, exactly when
\* live_count is non-zero (otherwise BREAK is set); the labels of a run are
\* 0, 1, 2, ... with none repeated or skipped.
C13_OutputSequence == []OutputSoFar /\ [][OutputStep]_vars

\* A run of two generations has rendered generations 0, 1 and 2.
C13_Witness == Finished /\ printed = <<0, 1, 2>> /\ BREAK = 0

\* The workers that have called Barrier for the round now open (the round
\* after the swaps completed rounds).
ArrivedNow == { t \in DOMAIN pc : arrivals[t] = swaps + 1 }

\* A worker has called Barrier again while a worker released by the
\* broadcast of the round before has not yet left Barrier.
EarlyReentry ==
    \E t, u \in DOMAIN pc :
        /\ pc[u] = "woken" /\ passes[u] < swaps
        /\ pc[t] = "wait" /\ arrivals[t] = arrivals[u] + 1

\* C14: the barrier is reusable and handles early re-entry: between leader
\* steps barrier_thread_count counts exactly the workers that have arrived
\* for the open round, each of them once (a worker re-entering early is an
\* arrival of the new round only); no worker of an earlier round is still
\* blocked; and a leader step begins only when every one of the
\* thread_count workers has arrived for the round.
C14_ReusableBarrier ==
    /\ barrier_mutex = Unlocked =>
          /\ \A t \in DOMAIN pc : arrivals[t] \in {swaps, swaps + 1}
          /\ barrier_thread_count = Cardinality(ArrivedNow)
          /\ \A t \in DOMAIN pc : pc[t] = "wait" => t \in ArrivedNow
    /\ \A t \in DOMAIN pc :
          pc[t] = "swap1" => ArrivedNow = DOMAIN pc

\* No worker is blocked in the wait of Barrier while another has returned
\* from Play_life; a worker that has returned has passed every completed
\* round; once BREAK is set no worker tests the loop condition or computes
\* again.
NoneStranded ==
    /\ \A t, u \in DOMAIN pc : ~(pc[t] = "wait" /\ pc[u] = "done")
    /\ \A t \in DOMAIN pc : pc[t] = "done" => passes[t] = swaps
    /\ BREAK = 1 =>
          \A t \in DOMAIN pc :
              \/ pc[t] \in {"idle", "reset", "release", "woken", "brk", "done"}
              \/ pc[t] = "wait" /\ barrier_mutex # Unlocked

\* C15: workers proceed or stop together and none is stranded: all workers
\* execute the same number of barrier rounds, after the round that sets
\* BREAK every worker leaves its loop, no worker stays blocked in Barrier
\* when a worker the round needs has returned, and under fair scheduling
\* main's joins complete and the process exits.
C15_ProceedOrStopTogether == []NoneStranded /\ <>(mainpc = "exit")

\* The thread taking the step holds barrier_mutex: it is the holder and
\* moves, or the step is a call of Barrier, which locks the mutex first.
WriterHoldsMutex ==
    \/ /\ barrier_mutex # Unlocked
       /\ pc'[barrier_mutex] # pc[barrier_mutex]
    \/ \E t \in DOMAIN pc :
          pc[t] = "barrier" /\ pc'[t] \in {"wait", "swap1"}

\* C16: barrier_thread_count, live_count, curr_gen and BREAK are written
\* only by a thread that holds barrier_mutex.
C16_WritesUnderMutex ==
    [][(\/ barrier_thread_count' # barrier_thread_count
        \/ live_count' # live_count
        \/ curr_gen' # curr_gen
        \/ BREAK' # BREAK) => WriterHoldsMutex]_vars

\* C17: write frame of the compute phase, for every thread grid and world,
\* divided evenly or not: the cell a worker is about to store to is a cell
\* of w2 inside the world and inside its own tile and in no other worker's
\* tile, and w2 is not the current world w1.
C17_WriteFrame ==
    \A t \in DOMAIN pc :
        pc[t] = "cell" =>
            /\ <<ci[t], cj[t]>> \in TileCells(t)
            /\ ci[t] * n + cj[t] \in Cells
            /\ \A u \in DOMAIN pc \ {t} : <<ci[t], cj[t]>> \notin TileCells(u)
            /\ w2 # w1

\* The remainder strip: the cells below the last row of tiles or right of
\* the last column of tiles.
Strip == { c \in Cells : (c \div n) >= r * local_m \/ (c % n) >= s * local_n }

\* C18: when r, s do not divide m, n evenly, no worker stores to a cell of
\* the remainder strip, and while a worker computes a round those cells of
\* the next world w2 hold their generation-0 state.
C18_StripKeepsGeneration0 ==
    (Running /\ ~Dividing /\ \E t \in DOMAIN pc : Computing(t)) =>
        /\ \A t \in DOMAIN pc :
              pc[t] = "cell" => (ci[t] * n + cj[t]) \notin Strip
        /\ \A c \in Strip : buf[w2][c] = world0[c]

\* The cells of world G that lie in some worker's tile.
TileValues(G) ==
    { G[c[1] * n + c[2]] : c \in UNION { TileCells(t) : t \in DOMAIN pc } }

\* C19: the termination decision is robust to lost updates of the
\* non-atomic live_count++: when the leader tests live_count (after the
\* swap), it is 0 if and only if no worker wrote a LIVE cell in the round,
\* that is, if and only if the new current world is dead over the tiles.
C19_ZeroIffNothingLive ==
    \A t \in DOMAIN pc :
        pc[t] = "test" =>
            /\ live_count = 0 <=> liveWritten = 0
            /\ live_count = 0 <=> LIVE \notin TileValues(buf[w1])

\* C20: a worker returns from its k-th call of Barrier only after the leader
\* of round k has swapped the worlds and broadcast, also when
\* pthread_cond_wait returns 0 with no broadcast: no worker has returned from
\* Barrier more often than rounds were completed.
C20_LeavesOnlyAfterBroadcast ==
    \A t \in DOMAIN pc : passes[t] <= swaps

====
